---- MODULE Spec2Model ----
(***************************************************************************)
(* LamportLedger: peers (src/src/client.py) that order transfers with a    *)
(* request / reply / release protocol over Lamport clocks, a per-peer      *)
(* hash-linked ledger (src/src/blockchain.py) and the bank registry        *)
(* (src/src/server.py).                                                    *)
(*                                                                         *)
(* Threads of one peer: the control thread (Client.interact: transfer,     *)
(* balance), the ticker thread (timeloop job process_message) and the      *)
(* event-loop thread (the FastAPI handlers, one request at a time since    *)
(* they are async functions that never await).  A thread may be preempted  *)
(* between two statements; a call of a built-in list method and a call of  *)
(* BlockChain.add_transaction are one step, while `x.logic_clock += 1` and *)
(* `x.logic_clock = max(x.logic_clock, t) + 1` are a read and a later      *)
(* write.  A thread blocked in an HTTP call lets every other thread run.   *)
(* The registry's handlers are async functions without await: each call is *)
(* one step.                                                               *)
(***************************************************************************)
EXTENDS Integers, Sequences, FiniteSets, TLC

VARIABLES
    logic_clock,     \* Client.logic_clock, per peer
    other_clients,   \* Client.other_clients (its key set), per peer
    sending_queue,   \* Client.sending_queue, per peer
    message_queue,   \* Client.message_queue, per peer
    chain,           \* Client.chain.chain, per peer
    ctl,             \* per peer: the control thread (transfer / balance)
    tk,              \* per peer: the ticker thread (process_message)
    ev,              \* per peer: the event-loop thread (HTTP handlers)
    chan,            \* chan[i][j]: HTTP requests from peer i not yet handled by j
    resp,            \* resp[i][th]: peers that answered thread th of peer i
    quota,           \* per peer: the commands its user still types
    accounts,        \* BankServer.accounts
    clients,         \* BankServer.clients (its key set)
    transactions,    \* BankServer.transactions
    response,        \* the registry's answer to the last direct call
    issued           \* the client ids the registry's register has returned so far

vars == <<logic_clock, other_clients, sending_queue, message_queue, chain,
          ctl, tk, ev, chan, resp, quota, accounts, clients, transactions,
          response, issued>>

peerVars == <<logic_clock, other_clients, sending_queue, message_queue, chain,
              ctl, tk, ev, chan, resp, quota>>

(***************************************************************************)
(* Bounds and inputs                                                       *)
(***************************************************************************)
NumPeers == 2
MaxTransfers == 1
MaxBalance == 1
MaxTime == 1
MaxAccountId == 3
MaxSrvTransfers == 2
MaxBlocks == 3

Peers == 1..NumPeers
\* the peers, and one more process that may join them later
Procs == 1..(NumPeers + 1)
Amounts == {4, 11}
\* an amount Client.transfer refuses
BadAmounts == {-1}
Threads == {"ctl", "tk", "ev"}

InitialBalance == 10

Max(a, b) == IF a >= b THEN a ELSE b

(***************************************************************************)
(* blockchain.py: Transaction                                              *)
(***************************************************************************)
\* A Transaction object. oid is the identity of the object: n > 0 for the
\* n-th object its peer created in transfer(), 0 for a copy built from a
\* payload, which nothing mutates.
Transaction(s, r, a, c, ts, o) ==
    [sender_id |-> s, recipient_id |-> r, amount |-> a,
     sender_logic_clock |-> c, timestamp |-> ts,
     status |-> "PENDING", num_replies |-> 0, oid |-> o]

\* Transaction.__eq__
TxEq(a, b) ==
    /\ a.sender_id = b.sender_id
    /\ a.recipient_id = b.recipient_id
    /\ a.amount = b.amount
    /\ a.sender_logic_clock = b.sender_logic_clock
    /\ a.timestamp = b.timestamp

\* Transaction.to_dict
to_dict(t) ==
    [sender_id |-> t.sender_id, recipient_id |-> t.recipient_id,
     amount |-> t.amount, sender_logic_clock |-> t.sender_logic_clock,
     timestamp |-> t.timestamp, status |-> t.status,
     num_replies |-> t.num_replies]

\* a tx_from_payload that leaves status and num_replies at the defaults of
\* Transaction.__init__
tx_from_payload_defaults(p) ==
    [sender_id |-> p.sender_id, recipient_id |-> p.recipient_id,
     amount |-> p.amount, sender_logic_clock |-> p.sender_logic_clock,
     timestamp |-> p.timestamp, status |-> "PENDING",
     num_replies |-> 0, oid |-> 0]

\* tx_from_payload
tx_from_payload(p) ==
    [sender_id |-> p.sender_id, recipient_id |-> p.recipient_id,
     amount |-> p.amount, sender_logic_clock |-> p.sender_logic_clock,
     timestamp |-> p.timestamp, status |-> p.status,
     num_replies |-> p.num_replies, oid |-> 0]

\* The sort key of both queues and of the chain: (sender_logic_clock, sender_id)
KeyLess(a, b) ==
    \/ a.sender_logic_clock < b.sender_logic_clock
    \/ /\ a.sender_logic_clock = b.sender_logic_clock
       /\ a.sender_id < b.sender_id

\* list.sort(key=...) is stable: x goes after every element whose key is <= its own
RECURSIVE InsertTx(_, _)
InsertTx(s, x) ==
    IF s = <<>> THEN <<x>>
    ELSE IF KeyLess(x, s[1]) THEN <<x>> \o s
    ELSE <<s[1]>> \o InsertTx(Tail(s), x)

RECURSIVE SortTx(_)
SortTx(s) ==
    IF s = <<>> THEN <<>>
    ELSE InsertTx(SortTx(SubSeq(s, 1, Len(s) - 1)), s[Len(s)])

\* `x in list`
Contains(s, x) == \E k \in DOMAIN s : TxEq(s[k], x)

\* list.remove(x): drops the first element equal to x
RECURSIVE RemoveFirst(_, _)
RemoveFirst(s, x) ==
    IF s = <<>> THEN <<>>
    ELSE IF TxEq(s[1], x) THEN Tail(s)
    ELSE <<s[1]>> \o RemoveFirst(Tail(s), x)

(***************************************************************************)
(* blockchain.py: Block, BlockChain                                        *)
(***************************************************************************)
\* hashlib.sha256(b"").hexdigest()
EmptyDigest == <<>>

\* Block.__init__ ; bid is the identity of the Block object (next_block points to one)
Block(t, b) ==
    [transaction |-> t, previous_hash |-> EmptyDigest, next_block |-> 0, bid |-> b]

\* Block.hash: the digest of {transaction: to_dict, previous_hash}, an injective
\* function of that pair
Hash(b) == <<to_dict(b.transaction), b.previous_hash>>

RECURSIVE InsertBlock(_, _)
InsertBlock(s, x) ==
    IF s = <<>> THEN <<x>>
    ELSE IF KeyLess(x.transaction, s[1].transaction) THEN <<x>> \o s
    ELSE <<s[1]>> \o InsertBlock(Tail(s), x)

RECURSIVE SortBlocks(_)
SortBlocks(s) ==
    IF s = <<>> THEN <<>>
    ELSE InsertBlock(SortBlocks(SubSeq(s, 1, Len(s) - 1)), s[Len(s)])

\* The loop of resort_blocks from index i on: block i gets its successor as
\* next_block, and the successor gets the hash of block i as previous_hash
RECURSIVE Sweep(_, _)
Sweep(c, i) ==
    IF i >= Len(c) THEN c
    ELSE LET linked == [c EXCEPT ![i].next_block = c[i + 1].bid]
             hashed == [linked EXCEPT ![i + 1].previous_hash = Hash(linked[i])]
         IN  Sweep(hashed, i + 1)

\* a resort_blocks that sorts and leaves the links as they were
resort_blocks_sort_only(c) == SortBlocks(c)

\* BlockChain.resort_blocks
resort_blocks(c) ==
    LET sorted == SortBlocks(c)
        headed == IF sorted = <<>> THEN sorted
                  ELSE [sorted EXCEPT ![1].previous_hash = EmptyDigest]
        swept  == Sweep(headed, 1)
    IN  IF swept = <<>> THEN swept
        ELSE [swept EXCEPT ![Len(swept)].next_block = 0]

\* BlockChain.add_transaction
\* an add_transaction that records nothing
add_transaction_none(c, t) == c

add_transaction(c, t) == resort_blocks(Append(c, Block(t, Len(c) + 1)))

(***************************************************************************)
(* server.py: BankServer                                                   *)
(***************************************************************************)
Account(id) == [id |-> id, balance |-> InitialBalance]

AccountIds(accs) == {accs[k].id : k \in DOMAIN accs}

RECURSIVE SetMax(_)
SetMax(S) ==
    LET x == CHOOSE y \in S : TRUE
    IN  IF S = {x} THEN x ELSE Max(x, SetMax(S \ {x}))

\* BankServer._check_account_info
_check_account_info(accs, cl) ==
    /\ Len(accs) = Cardinality(cl)
    /\ \A k, l \in DOMAIN accs : accs[k].id = accs[l].id => k = l

\* [a for a in self.accounts if a.id == id][0]: the index of the first match, 0 if none
FindAccount(accs, id) ==
    IF id \in AccountIds(accs)
    THEN CHOOSE k \in DOMAIN accs :
            /\ accs[k].id = id
            /\ \A l \in 1..(k - 1) : accs[l].id # id
    ELSE 0

\* BankServer.register, line 111: max(ids) + 1 if ids else 1
next_client_id(accs) ==
    IF AccountIds(accs) = {} THEN 1 ELSE SetMax(AccountIds(accs)) + 1

\* a shutdown_client that keeps every account
shutdown_accounts_all(accs, client_id) == accs

\* the accounts BankServer.shutdown_client keeps
shutdown_accounts(accs, client_id) ==
    SelectSeq(accs, LAMBDA a : a.id # client_id)

\* BankServer.balance: the answer
balance_result(accs, cl, id) ==
    IF ~_check_account_info(accs, cl) \/ FindAccount(accs, id) = 0
    THEN [status |-> 500]
    ELSE [status |-> 200, balance |-> accs[FindAccount(accs, id)].balance]

\* a transfer that answers without the insufficient-balance test
transfer_result_unchecked(accs, cl, p) ==
    LET s == FindAccount(accs, p.sender_id)
        r == FindAccount(accs, p.recipient_id)
    IN  IF ~_check_account_info(accs, cl) \/ s = 0 \/ r = 0
        THEN [status |-> 500]
        ELSE IF p.amount < 0 THEN [status |-> 200, result |-> "fail"]
        ELSE [status |-> 200, result |-> "success"]

\* BankServer.transfer: the answer
transfer_result(accs, cl, p) ==
    LET s == FindAccount(accs, p.sender_id)
        r == FindAccount(accs, p.recipient_id)
    IN  IF ~_check_account_info(accs, cl) \/ s = 0 \/ r = 0
        THEN [status |-> 500]
        ELSE IF p.amount < 0 THEN [status |-> 200, result |-> "fail"]
        ELSE IF accs[s].balance < p.amount THEN [status |-> 200, result |-> "fail"]
        ELSE [status |-> 200, result |-> "success"]

Succeeded(res) == res.status = 200 /\ res.result = "success"

\* a transfer that debits the sender and credits nobody
transfer_accounts_debit_only(accs, cl, p) ==
    LET s == FindAccount(accs, p.sender_id)
    IN  IF Succeeded(transfer_result(accs, cl, p))
        THEN [accs EXCEPT ![s].balance = @ - p.amount]
        ELSE accs

\* BankServer.transfer: the accounts afterwards
transfer_accounts(accs, cl, p) ==
    LET s == FindAccount(accs, p.sender_id)
        r == FindAccount(accs, p.recipient_id)
    IN  IF Succeeded(transfer_result(accs, cl, p))
        THEN LET debited == [accs EXCEPT ![s].balance = @ - p.amount]
             IN  [debited EXCEPT ![r].balance = @ + p.amount]
        ELSE accs

\* BankServer.transfer: the transaction log afterwards
transfer_log(accs, cl, log, p) ==
    IF Succeeded(transfer_result(accs, cl, p))
    THEN Append(log, tx_from_payload(p))
    ELSE log

(***************************************************************************)
(* client.py: the state of the peers                                       *)
(***************************************************************************)
\* made: the Transaction objects the peer created so far; time: the reading of
\* get_current_time at the last of them, counted from the first one
CtlIdle(made, time) ==
    [pc |-> "idle", recipient |-> 0, amount |-> 0, creg |-> 0,
     targets |-> {}, left |-> 0, made |-> made, time |-> time]

TkIdle == [pc |-> "idle", cur_balance |-> 0, creg |-> 0, targets |-> {}]

EvIdle == [pc |-> "idle", src |-> 0, th |-> "ctl", tx |-> <<>>, creg |-> 0]

Msg(type, th, t) == [type |-> type, th |-> th, tx |-> to_dict(t)]

\* the body {client_id} of POST /register, the path of GET /exit/{client_id}
Note(type, th, id) == [type |-> type, th |-> th, id |-> id]

\* A process that is not running: none of its threads exists
Off(rec) == [rec EXCEPT !.pc = "off"]

\* Client.__init__ for every process of M, after all of them registered; the
\* other processes are not running
InitMembers(M) ==
    /\ logic_clock = [i \in Procs |-> 0]
    /\ other_clients = [i \in Procs |-> IF i \in M THEN M \ {i} ELSE {}]
    /\ sending_queue = [i \in Procs |-> <<>>]
    /\ message_queue = [i \in Procs |-> <<>>]
    /\ chain = [i \in Procs |-> <<>>]
    /\ ctl = [i \in Procs |-> IF i \in M THEN CtlIdle(0, 0) ELSE Off(CtlIdle(0, 0))]
    /\ tk = [i \in Procs |-> IF i \in M THEN TkIdle ELSE Off(TkIdle)]
    /\ ev = [i \in Procs |-> IF i \in M THEN EvIdle ELSE Off(EvIdle)]
    /\ chan = [i \in Procs |-> [j \in Procs |-> <<>>]]
    /\ resp = [i \in Procs |-> [th \in Threads |-> {}]]

InitPeers == InitMembers(Peers)

NoResponse == [op |-> "none", status |-> 0]

\* BankServer after n register calls
InitServerOf(n) ==
    /\ accounts = [k \in 1..n |-> Account(k)]
    /\ clients = 1..n
    /\ transactions = <<>>
    /\ response = NoResponse
    /\ issued = 1..n

InitServer == InitServerOf(NumPeers)

Quota(t, q) == [transfers |-> t, queries |-> q]

Init ==
    /\ InitPeers
    /\ quota = [i \in Procs |-> IF i \in Peers THEN Quota(MaxTransfers, MaxBalance)
                                ELSE Quota(0, 0)]
    /\ InitServer

srvVars == <<accounts, clients, transactions, response, issued>>

\* A mutation of the Transaction object o of a peer shows through every
\* reference to it: in sending_queue, in message_queue and in the chain.
\* a commit that leaves the status as it was
SetStatus_keep(t, o, st) == t

\* `head_send.status = ...`: every reference to the object sees the new status
SetStatus(t, o, st) == IF t.oid = o THEN [t EXCEPT !.status = st] ELSE t

AddReply(t, o) == IF t.oid = o THEN [t EXCEPT !.num_replies = @ + 1] ELSE t

\* jobs sent to every other process, whatever `targets` holds
Broadcast_everyone(i, targets, m) ==
    [chan EXCEPT ![i] = [j \in Procs |->
        IF j # i THEN Append(chan[i][j], m) ELSE chan[i][j]]]

\* jobs sent to every peer of `targets` by thread th of peer i
Broadcast(i, targets, m) ==
    [chan EXCEPT ![i] = [j \in Procs |->
        IF j \in targets THEN Append(chan[i][j], m) ELSE chan[i][j]]]

(***************************************************************************)
(* client.py: the control thread                                           *)
(***************************************************************************)
\* checks that let every amount through
transfer_checks_recipient_only(oc, r, a) == r \in oc

\* Client.transfer, lines 191-196: the recipient is a key of other_clients and
\* the amount is not negative
transfer_checks(oc, r, a) == r \in oc /\ a >= 0

\* Client.transfer, lines 191-196: a call that fails a check returns at once
transfer_reject(i, r, a) ==
    /\ ctl[i].pc = "idle"
    /\ quota[i].transfers > 0
    /\ quota' = [quota EXCEPT ![i].transfers = @ - 1]
    /\ ~transfer_checks(other_clients[i], r, a)
    /\ UNCHANGED <<logic_clock, other_clients, sending_queue, message_queue,
                   chain, ctl, tk, ev, chan, resp, srvVars>>

\* Client.transfer, lines 191-201: the checks, and the read of `logic_clock += 1`
transfer_begin(i, r, a) ==
    /\ ctl[i].pc = "idle"
    /\ quota[i].transfers > 0
    /\ quota' = [quota EXCEPT ![i].transfers = @ - 1]
    /\ transfer_checks(other_clients[i], r, a)
    /\ ctl' = [ctl EXCEPT ![i] = [@ EXCEPT !.pc = "t_inc", !.recipient = r,
                                           !.amount = a, !.creg = logic_clock[i]]]
    /\ UNCHANGED <<logic_clock, other_clients, sending_queue, message_queue,
                   chain, tk, ev, chan, resp, srvVars>>

\* Client.transfer, line 201: the write of `logic_clock += 1`
transfer_inc(i) ==
    /\ ctl[i].pc = "t_inc"
    /\ logic_clock' = [logic_clock EXCEPT ![i] = ctl[i].creg + 1]
    /\ ctl' = [ctl EXCEPT ![i].pc = "t_stamp"]
    /\ UNCHANGED <<other_clients, sending_queue, message_queue, chain, tk, ev,
                   chan, resp, quota, srvVars>>

\* get_current_time: a peer's first transaction sets the origin of its time; a
\* later reading is that of the transaction before or a later one (timestamps
\* are only compared for equality, between transactions of one sender)
Readings(made, time) ==
    IF made = 0 THEN {0} ELSE {t \in {time, time + 1} : t <= MaxTime}

\* Client.transfer, lines 202-207, and request_transaction, lines 149-152: the
\* new Transaction is stamped with the clock as it is then and appended to both queues
transfer_stamp(i) ==
    /\ ctl[i].pc = "t_stamp"
    /\ \E ts \in Readings(ctl[i].made, ctl[i].time) :
         LET t == Transaction(i, ctl[i].recipient, ctl[i].amount, logic_clock[i],
                              ts, ctl[i].made + 1)
         IN  /\ sending_queue' = [sending_queue EXCEPT ![i] = Append(@, t)]
             /\ message_queue' = [message_queue EXCEPT ![i] = Append(@, t)]
             /\ ctl' = [ctl EXCEPT ![i] = [@ EXCEPT !.pc = "t_sort", !.made = @ + 1,
                                                    !.time = ts]]
    /\ UNCHANGED <<logic_clock, other_clients, chain, tk, ev, chan, resp, quota,
                   srvVars>>

\* request_transaction, lines 153-164: the sort, and the requests go out
request_transaction_send(i) ==
    /\ ctl[i].pc = "t_sort"
    /\ message_queue' = [message_queue EXCEPT ![i] = SortTx(@)]
    /\ LET t == sending_queue[i][Len(sending_queue[i])]
           targets == other_clients[i]
       IN  /\ chan' = Broadcast(i, targets, Msg("request", "ctl", t))
           /\ ctl' = [ctl EXCEPT ![i] =
                        IF targets = {} THEN CtlIdle(@.made, @.time)
                        ELSE [@ EXCEPT !.pc = "t_wait", !.targets = targets,
                                       !.left = Cardinality(targets)]]
    /\ resp' = [resp EXCEPT ![i]["ctl"] = {}]
    /\ UNCHANGED <<logic_clock, other_clients, sending_queue, chain, tk, ev,
                   quota, srvVars>>

\* request_transaction, lines 164-171: every peer answered 200 with result
\* success; one `tx.num_replies += 1` per answer
request_transaction_count(i) ==
    /\ ctl[i].pc = "t_wait"
    /\ resp[i]["ctl"] = ctl[i].targets
    /\ ctl[i].left > 0
    /\ LET o == ctl[i].made
       IN  /\ sending_queue' = [sending_queue EXCEPT ![i] =
                 [k \in DOMAIN @ |-> AddReply(@[k], o)]]
           /\ message_queue' = [message_queue EXCEPT ![i] =
                 [k \in DOMAIN @ |-> AddReply(@[k], o)]]
           /\ chain' = [chain EXCEPT ![i] =
                 [k \in DOMAIN @ |-> [@[k] EXCEPT !.transaction = AddReply(@, o)]]]
    /\ ctl' = [ctl EXCEPT ![i] =
                 IF @.left = 1 THEN CtlIdle(@.made, @.time)
                 ELSE [@ EXCEPT !.left = @ - 1]]
    /\ UNCHANGED <<logic_clock, other_clients, tk, ev, chan, resp, quota, srvVars>>

\* Client.balance, lines 216-219: the registry's answer, and the read of
\* `logic_clock += 1`
balance_begin(i) ==
    /\ ctl[i].pc = "idle"
    /\ quota[i].queries > 0
    /\ quota' = [quota EXCEPT ![i].queries = @ - 1]
    /\ ctl' = [ctl EXCEPT ![i] =
                 IF balance_result(accounts, clients, i).status = 200
                 THEN [@ EXCEPT !.pc = "b_inc", !.creg = logic_clock[i]]
                 ELSE @]
    /\ UNCHANGED <<logic_clock, other_clients, sending_queue, message_queue,
                   chain, tk, ev, chan, resp, srvVars>>

\* Client.balance, line 219: the write of `logic_clock += 1`
balance_inc(i) ==
    /\ ctl[i].pc = "b_inc"
    /\ logic_clock' = [logic_clock EXCEPT ![i] = ctl[i].creg + 1]
    /\ ctl' = [ctl EXCEPT ![i] = CtlIdle(@.made, @.time)]
    /\ UNCHANGED <<other_clients, sending_queue, message_queue, chain, tk, ev,
                   chan, resp, quota, srvVars>>

(***************************************************************************)
(* client.py: the ticker thread (process_message)                          *)
(***************************************************************************)
\* process_message, line 330: the gate
Gate(i) ==
    /\ message_queue[i] # <<>>
    /\ sending_queue[i] # <<>>
    /\ TxEq(sending_queue[i][1], message_queue[i][1])
    /\ sending_queue[i][1].num_replies = Cardinality(other_clients[i])

\* process_message, lines 324-331: the gate holds, and balance(for_transfer=True)
\* reads the balance at the registry (a failed read ends the thread on the assert)
process_message_gate(i) ==
    /\ tk[i].pc = "idle"
    /\ Gate(i)
    /\ LET res == balance_result(accounts, clients, i)
       IN  tk' = [tk EXCEPT ![i] =
                    IF res.status = 200
                    THEN [@ EXCEPT !.pc = "commit", !.cur_balance = res.balance]
                    ELSE [@ EXCEPT !.pc = "dead"]]
    /\ UNCHANGED <<logic_clock, other_clients, sending_queue, message_queue,
                   chain, ctl, ev, chan, resp, quota, srvVars>>

\* a test that finds every balance sufficient
insufficient_never(cur_balance, amount) == FALSE

\* process_message, line 335: the balance read does not cover the amount
insufficient(cur_balance, amount) == cur_balance < amount

\* process_message, lines 335-347 with finish_transaction, lines 175-184: the
\* registry transfer unless the balance read is too low, the status, the block,
\* and the releases go out
process_message_commit(i) ==
    /\ tk[i].pc = "commit"
    /\ LET head_send == sending_queue[i][1]
           o == head_send.oid
           res == transfer_result(accounts, clients, to_dict(head_send))
           abort == insufficient(tk[i].cur_balance, head_send.amount)
           failed == ~abort /\ ~Succeeded(res)
           st == IF abort THEN "ABORT" ELSE "SUCCESS"
           done == SetStatus(head_send, o, st)
           targets == other_clients[i]
       IN  /\ accounts' = IF abort THEN accounts
                          ELSE transfer_accounts(accounts, clients, to_dict(head_send))
           /\ transactions' = IF abort THEN transactions
                              ELSE transfer_log(accounts, clients, transactions,
                                                to_dict(head_send))
           /\ IF failed
              THEN /\ tk' = [tk EXCEPT ![i].pc = "dead"]
                   /\ UNCHANGED <<sending_queue, message_queue, chain, chan, resp>>
              ELSE /\ sending_queue' = [sending_queue EXCEPT ![i] =
                         [k \in DOMAIN @ |-> SetStatus(@[k], o, st)]]
                   /\ message_queue' = [message_queue EXCEPT ![i] =
                         [k \in DOMAIN @ |-> SetStatus(@[k], o, st)]]
                   /\ chain' = [chain EXCEPT ![i] = add_transaction(@, done)]
                   /\ chan' = Broadcast(i, targets, Msg("release", "tk", done))
                   /\ resp' = [resp EXCEPT ![i]["tk"] = {}]
                   /\ tk' = [tk EXCEPT ![i] = [@ EXCEPT !.pc = "wait",
                                                        !.targets = targets]]
    /\ UNCHANGED <<logic_clock, other_clients, ctl, ev, quota, clients, response,
                   issued>>

\* list.remove(x) raises ValueError when x is not in the list
RemoveOrRaise(i, x) == Contains(message_queue[i], x)

\* process_message, line 353: message_queue.remove(sending_queue.pop(0))
PopAndRemove(i) ==
    LET x == sending_queue[i][1]
    IN  /\ sending_queue' = [sending_queue EXCEPT ![i] = Tail(@)]
        /\ message_queue' = [message_queue EXCEPT ![i] = RemoveFirst(@, x)]
        /\ tk' = [tk EXCEPT ![i] =
                    IF RemoveOrRaise(i, x) THEN TkIdle ELSE [TkIdle EXCEPT !.pc = "dead"]]

\* finish_transaction, lines 184-185: every peer answered the release. After an
\* ABORT the queues are cleaned at once (line 353); after a SUCCESS line 349
\* first calls balance(), whose `logic_clock += 1` starts with this read
process_message_released(i) ==
    /\ tk[i].pc = "wait"
    /\ resp[i]["tk"] = tk[i].targets
    /\ IF sending_queue[i][1].status = "ABORT"
       THEN PopAndRemove(i)
       ELSE /\ tk' = [tk EXCEPT ![i] =
                        IF balance_result(accounts, clients, i).status = 200
                        THEN [@ EXCEPT !.pc = "b_inc", !.creg = logic_clock[i]]
                        ELSE [@ EXCEPT !.pc = "dead"]]
            /\ UNCHANGED <<sending_queue, message_queue>>
    /\ UNCHANGED <<logic_clock, other_clients, chain, ctl, ev, chan, resp, quota,
                   srvVars>>

\* process_message, line 349 (Client.balance, line 219): the write of
\* `logic_clock += 1`
process_message_balance_inc(i) ==
    /\ tk[i].pc = "b_inc"
    /\ logic_clock' = [logic_clock EXCEPT ![i] = tk[i].creg + 1]
    /\ tk' = [tk EXCEPT ![i].pc = "remove"]
    /\ UNCHANGED <<other_clients, sending_queue, message_queue, chain, ctl, ev,
                   chan, resp, quota, srvVars>>

\* process_message, line 353, after a SUCCESS
process_message_remove(i) ==
    /\ tk[i].pc = "remove"
    /\ PopAndRemove(i)
    /\ UNCHANGED <<logic_clock, other_clients, chain, ctl, ev, chan, resp, quota,
                   srvVars>>

(***************************************************************************)
(* client.py: the event-loop thread (the HTTP handlers)                    *)
(***************************************************************************)
Reply(j) == [resp EXCEPT ![ev[j].src][ev[j].th] = @ \cup {j}]

\* receive_transfer_request, lines 360-362: the oldest request of peer k is
\* taken up, and its transaction appended to message_queue
receive_transfer_request(j, k) ==
    /\ ev[j].pc = "idle"
    /\ chan[k][j] # <<>>
    /\ chan[k][j][1].type = "request"
    /\ LET m == chan[k][j][1]
           t == tx_from_payload(m.tx)
       IN  /\ message_queue' = [message_queue EXCEPT ![j] = Append(@, t)]
           /\ ev' = [ev EXCEPT ![j] = [@ EXCEPT !.pc = "req_sort", !.src = k,
                                                !.th = m.th, !.tx = t]]
    /\ chan' = [chan EXCEPT ![k][j] = Tail(@)]
    /\ UNCHANGED <<logic_clock, other_clients, sending_queue, chain, ctl, tk,
                   resp, quota, srvVars>>

\* receive_transfer_request, lines 363-365: the sort, and the read of the clock
receive_transfer_request_sort(j) ==
    /\ ev[j].pc = "req_sort"
    /\ message_queue' = [message_queue EXCEPT ![j] = SortTx(@)]
    /\ ev' = [ev EXCEPT ![j] = [@ EXCEPT !.pc = "req_clock", !.creg = logic_clock[j]]]
    /\ UNCHANGED <<logic_clock, other_clients, sending_queue, chain, ctl, tk,
                   chan, resp, quota, srvVars>>

\* a receive rule that ignores the request's stamp
recv_clock_local(c, t) == c + 1

\* the clock receive_transfer_request writes, from the clock it read and the
\* request's sender_logic_clock
recv_clock(c, t) == Max(c, t) + 1

\* receive_transfer_request, lines 365-366: the write of the clock, and the answer
receive_transfer_request_clock(j) ==
    /\ ev[j].pc = "req_clock"
    /\ logic_clock' = [logic_clock EXCEPT ![j] =
                         recv_clock(ev[j].creg, ev[j].tx.sender_logic_clock)]
    /\ resp' = Reply(j)
    /\ ev' = [ev EXCEPT ![j] = EvIdle]
    /\ UNCHANGED <<other_clients, sending_queue, message_queue, chain, ctl, tk,
                   chan, quota, srvVars>>

\* receive_transfer_finish, lines 373-377: the oldest release of peer k is taken
\* up, and an equal transaction removed from message_queue
receive_transfer_finish(j, k) ==
    /\ ev[j].pc = "idle"
    /\ chan[k][j] # <<>>
    /\ chan[k][j][1].type = "release"
    /\ LET m == chan[k][j][1]
           t == tx_from_payload(m.tx)
       IN  /\ message_queue' = [message_queue EXCEPT ![j] = RemoveFirst(@, t)]
           /\ ev' = [ev EXCEPT ![j] = [@ EXCEPT !.pc = "fin_add", !.src = k,
                                                !.th = m.th, !.tx = t]]
    /\ chan' = [chan EXCEPT ![k][j] = Tail(@)]
    /\ UNCHANGED <<logic_clock, other_clients, sending_queue, chain, ctl, tk,
                   resp, quota, srvVars>>

\* receive_transfer_finish, lines 379-380: the block, and the answer
receive_transfer_finish_add(j) ==
    /\ ev[j].pc = "fin_add"
    /\ chain' = [chain EXCEPT ![j] = add_transaction(@, ev[j].tx)]
    /\ resp' = Reply(j)
    /\ ev' = [ev EXCEPT ![j] = EvIdle]
    /\ UNCHANGED <<logic_clock, other_clients, sending_queue, message_queue,
                   ctl, tk, chan, quota, srvVars>>


(***************************************************************************)
(* client.py: processes that join and leave                                *)
(***************************************************************************)
\* A request or release of thread th of peer k got no answer: grequests.map
\* yields None for it and the assert after it ends the thread
CtlAfterFail(k, th) ==
    IF th = "ctl" /\ ctl[k].pc = "t_wait" THEN [ctl EXCEPT ![k].pc = "dead"] ELSE ctl

\* a ticker that survives the failed assert and runs the next tick
TkAfterFail_retry(k, th) ==
    IF th = "tk" /\ tk[k].pc = "wait" THEN [tk EXCEPT ![k] = TkIdle] ELSE tk

TkAfterFail(k, th) ==
    IF th = "tk" /\ tk[k].pc = "wait" THEN [tk EXCEPT ![k].pc = "dead"] ELSE tk

\* A call to a process that is not running is refused. A failed request or
\* release ends the calling thread; a failed notification is only logged
\* (register_client, lines 280-301; shutdown, lines 224-237; ui_quit, 404-411)
refused(k, j) ==
    /\ chan[k][j] # <<>>
    /\ ev[j].pc = "off"
    /\ LET m == chan[k][j][1]
       IN  IF m.type \in {"request", "release"}
           THEN /\ ctl' = CtlAfterFail(k, m.th)
                /\ tk' = TkAfterFail(k, m.th)
                /\ UNCHANGED resp
           ELSE /\ resp' = [resp EXCEPT ![k][m.th] = @ \cup {j}]
                /\ UNCHANGED <<ctl, tk>>
    /\ chan' = [chan EXCEPT ![k][j] = Tail(@)]
    /\ UNCHANGED <<logic_clock, other_clients, sending_queue, message_queue,
                   chain, ev, quota, srvVars>>

\* add_new_registered_client
add_new_registered_client(j, k) ==
    /\ ev[j].pc = "idle"
    /\ chan[k][j] # <<>>
    /\ chan[k][j][1].type = "register"
    /\ other_clients' = [other_clients EXCEPT ![j] = @ \cup {chan[k][j][1].id}]
    /\ resp' = [resp EXCEPT ![k][chan[k][j][1].th] = @ \cup {j}]
    /\ chan' = [chan EXCEPT ![k][j] = Tail(@)]
    /\ UNCHANGED <<logic_clock, sending_queue, message_queue, chain, ctl, tk, ev,
                   quota, srvVars>>

\* remove_shutdown_client
remove_shutdown_client(j, k) ==
    /\ ev[j].pc = "idle"
    /\ chan[k][j] # <<>>
    /\ chan[k][j][1].type = "exit"
    /\ other_clients' = [other_clients EXCEPT ![j] = @ \ {chan[k][j][1].id}]
    /\ resp' = [resp EXCEPT ![k][chan[k][j][1].th] = @ \cup {j}]
    /\ chan' = [chan EXCEPT ![k][j] = Tail(@)]
    /\ UNCHANGED <<logic_clock, sending_queue, message_queue, chain, ctl, tk, ev,
                   quota, srvVars>>

\* register_client, lines 246-290: the registry's register, and the
\* notifications to the clients it named go out
register_client(n) ==
    /\ ctl[n].pc = "off"
    /\ n \notin issued
    /\ _check_account_info(accounts, clients)
    /\ next_client_id(accounts) = n
    /\ accounts' = Append(accounts, Account(n))
    /\ clients' = clients \cup {n}
    /\ issued' = issued \cup {n}
    /\ other_clients' = [other_clients EXCEPT ![n] = clients]
    /\ chan' = Broadcast(n, clients, Note("register", "ctl", n))
    /\ resp' = [resp EXCEPT ![n]["ctl"] = {}]
    /\ ctl' = [ctl EXCEPT ![n] = [@ EXCEPT !.pc = "r_wait", !.targets = clients]]
    /\ UNCHANGED <<logic_clock, sending_queue, message_queue, chain, tk, ev,
                   quota, transactions, response>>

\* register_client, lines 290-310, and Client.start: every notification was
\* answered or failed; the Client is built and its threads start
client_start(n) ==
    /\ ctl[n].pc = "r_wait"
    /\ resp[n]["ctl"] = ctl[n].targets
    /\ ctl' = [ctl EXCEPT ![n] = CtlIdle(0, 0)]
    /\ tk' = [tk EXCEPT ![n] = TkIdle]
    /\ ev' = [ev EXCEPT ![n] = EvIdle]
    /\ UNCHANGED <<logic_clock, other_clients, sending_queue, message_queue,
                   chain, chan, resp, quota, srvVars>>

\* os._exit(0): the threads of process x are gone, and with them its memory.
\* A request or release that x was handling stays without an answer.
Exited(x) ==
    /\ LET busy == ev[x].pc \in {"req_sort", "req_clock", "fin_add"}
           dropped == [ctl EXCEPT ![x] = Off(CtlIdle(0, 0))]
           stopped == [tk EXCEPT ![x] = Off(TkIdle)]
       IN  /\ ctl' = IF busy /\ ev[x].th = "ctl" /\ dropped[ev[x].src].pc = "t_wait"
                     THEN [dropped EXCEPT ![ev[x].src].pc = "dead"] ELSE dropped
           /\ tk' = IF busy /\ ev[x].th = "tk" /\ stopped[ev[x].src].pc = "wait"
                    THEN [stopped EXCEPT ![ev[x].src].pc = "dead"] ELSE stopped
    /\ ev' = [ev EXCEPT ![x] = Off(EvIdle)]
    /\ logic_clock' = [logic_clock EXCEPT ![x] = 0]
    /\ other_clients' = [other_clients EXCEPT ![x] = {}]
    /\ sending_queue' = [sending_queue EXCEPT ![x] = <<>>]
    /\ message_queue' = [message_queue EXCEPT ![x] = <<>>]
    /\ chain' = [chain EXCEPT ![x] = <<>>]

\* Client.shutdown, lines 224-228: the command `exit`; the notifications go out
shutdown_begin(x) ==
    /\ ctl[x].pc = "idle"
    /\ chan' = Broadcast(x, other_clients[x], Note("exit", "ctl", x))
    /\ resp' = [resp EXCEPT ![x]["ctl"] = {}]
    /\ ctl' = [ctl EXCEPT ![x] = [@ EXCEPT !.pc = "x_wait", !.targets = other_clients[x]]]
    /\ UNCHANGED <<logic_clock, other_clients, sending_queue, message_queue,
                   chain, tk, ev, quota, srvVars>>

\* Client.shutdown, lines 228-239, and interact, line 106: every notification
\* was answered or failed; the process exits. The registry is not told.
shutdown_end(x) ==
    /\ ctl[x].pc = "x_wait"
    /\ resp[x]["ctl"] = ctl[x].targets
    /\ Exited(x)
    /\ UNCHANGED <<chan, resp, quota, srvVars>>

\* ui_quit, lines 404-408: the quit button of the web page; the handler runs on
\* the event loop and notifies the other clients
ui_quit_begin(x) ==
    /\ ev[x].pc = "idle"
    /\ chan' = Broadcast(x, other_clients[x], Note("exit", "ev", x))
    /\ resp' = [resp EXCEPT ![x]["ev"] = {}]
    /\ ev' = [ev EXCEPT ![x] = [@ EXCEPT !.pc = "q_wait"]]
    /\ UNCHANGED <<logic_clock, other_clients, sending_queue, message_queue,
                   chain, ctl, tk, quota, srvVars>>

\* ui_quit, lines 409-419: every notification was answered or failed; the
\* registry's exit is called and the process exits
ui_quit_end(x) ==
    /\ ev[x].pc = "q_wait"
    /\ resp[x]["ev"] = other_clients[x]
    /\ clients' = clients \ {x}
    /\ accounts' = shutdown_accounts(accounts, x)
    /\ Exited(x)
    /\ UNCHANGED <<chan, resp, quota, transactions, response, issued>>

(***************************************************************************)
(* A longer session: peer 1 asks for its balance twice and transfers       *)
(* twice, peer 2 transfers once                                            *)
(***************************************************************************)
SessionTransfers == 2
SessionQueries == 2
SessionAmounts == {4}

InitSession ==
    /\ InitPeers
    /\ quota = [i \in Procs |-> IF i = 1 THEN Quota(SessionTransfers, SessionQueries)
                                ELSE IF i \in Peers THEN Quota(1, 0)
                                ELSE Quota(0, 0)]
    /\ InitServer

\* the command `balance`
Queries ==
    \/ \E i \in Procs : balance_begin(i)
    \/ \E i \in Procs : balance_inc(i)

\* the steps of an accepted transfer: the sender's control thread and ticker,
\* and the handlers of the others
Protocol ==
    \/ \E i \in Procs : transfer_inc(i)
    \/ \E i \in Procs : transfer_stamp(i)
    \/ \E i \in Procs : request_transaction_send(i)
    \/ \E i \in Procs : request_transaction_count(i)
    \/ \E i \in Procs : process_message_gate(i)
    \/ \E i \in Procs : process_message_commit(i)
    \/ \E i \in Procs : process_message_released(i)
    \/ \E i \in Procs : process_message_balance_inc(i)
    \/ \E i \in Procs : process_message_remove(i)
    \/ \E j \in Procs, k \in Procs : receive_transfer_request(j, k)
    \/ \E j \in Procs : receive_transfer_request_sort(j)
    \/ \E j \in Procs : receive_transfer_request_clock(j)
    \/ \E j \in Procs, k \in Procs : receive_transfer_finish(j, k)
    \/ \E j \in Procs : receive_transfer_finish_add(j)

Steps == Queries \/ Protocol

Next ==
    \/ \E i \in Peers, r \in Procs, a \in Amounts \cup BadAmounts :
          transfer_begin(i, r, a)
    \/ \E i \in Peers, r \in Procs, a \in Amounts \cup BadAmounts :
          transfer_reject(i, r, a)
    \/ Steps

Spec == Init /\ [][Next]_vars

NextSession ==
    \/ \E i \in Peers, r \in Peers, a \in SessionAmounts : transfer_begin(i, r, a)
    \/ Steps

SpecSession == InitSession /\ [][NextSession]_vars

(***************************************************************************)
(* Three peers, of which two may leave while peer 1 makes a transfer       *)
(***************************************************************************)
Leavers == Procs \ {1}
LeaveAmounts == {4}

InitLeave ==
    /\ InitMembers(Procs)
    /\ quota = [i \in Procs |-> IF i = 1 THEN Quota(1, 0) ELSE Quota(0, 0)]
    /\ InitServerOf(NumPeers + 1)

Leaving ==
    \/ \E x \in Leavers : shutdown_begin(x)
    \/ \E x \in Leavers : shutdown_end(x)
    \/ \E x \in Leavers : ui_quit_begin(x)
    \/ \E x \in Leavers : ui_quit_end(x)
    \/ \E j \in Procs, k \in Procs : remove_shutdown_client(j, k)
    \/ \E k \in Procs, j \in Procs : refused(k, j)

NextLeave ==
    \/ \E i \in Procs, r \in Procs, a \in LeaveAmounts : transfer_begin(i, r, a)
    \/ \E i \in Procs, r \in Procs, a \in LeaveAmounts : transfer_reject(i, r, a)
    \/ Protocol
    \/ Leaving

SpecLeave == InitLeave /\ [][NextLeave]_vars

(***************************************************************************)
(* Two peers that transfer while a third process joins                     *)
(***************************************************************************)
JoinAmounts == {4}

InitJoin ==
    /\ InitPeers
    /\ quota = [i \in Procs |-> IF i = 1 THEN Quota(1, 1)
                                ELSE IF i \in Peers THEN Quota(1, 0)
                                ELSE Quota(0, 0)]
    /\ InitServer

Joining ==
    \/ \E n \in Procs : register_client(n)
    \/ \E n \in Procs : client_start(n)
    \/ \E j \in Procs, k \in Procs : add_new_registered_client(j, k)
    \/ \E k \in Procs, j \in Procs : refused(k, j)

NextJoin ==
    \/ \E i \in Procs, r \in Procs, a \in JoinAmounts : transfer_begin(i, r, a)
    \/ Steps
    \/ Joining

SpecJoin == InitJoin /\ [][NextJoin]_vars

(***************************************************************************)
(* Two peers whose requests and releases may run into the timeout of the   *)
(* HTTP call                                                               *)
(***************************************************************************)
\* request_transaction, lines 157-168, and finish_transaction, lines 176-184:
\* the call to peer j is not answered within `timeout=5` (the handler of j
\* sleeps TRANSFER_DELAY on the event loop for every call it takes up).
\* grequests.map yields None for it and the assert ends the calling thread;
\* the call itself stays with peer j, which still handles it.
timed_out(k, j) ==
    /\ chan[k][j] # <<>>
    /\ ev[j].pc # "off"
    /\ chan[k][j][1].type \in {"request", "release"}
    /\ \/ chan[k][j][1].th = "ctl" /\ ctl[k].pc = "t_wait"
       \/ chan[k][j][1].th = "tk" /\ tk[k].pc = "wait"
    /\ ctl' = CtlAfterFail(k, chan[k][j][1].th)
    /\ tk' = TkAfterFail(k, chan[k][j][1].th)
    /\ UNCHANGED <<logic_clock, other_clients, sending_queue, message_queue,
                   chain, ev, chan, resp, quota, srvVars>>

TimeoutAmounts == {4}

NextTimeout ==
    \/ \E i \in Peers, r \in Peers, a \in TimeoutAmounts : transfer_begin(i, r, a)
    \/ Steps
    \/ \E k \in Peers, j \in Peers : timed_out(k, j)

SpecTimeout == Init /\ [][NextTimeout]_vars

(***************************************************************************)
(* server.py: the registry on its own, called with any arguments           *)
(***************************************************************************)
Ids == 1..MaxAccountId
SrvAmounts == {-1, 4, 11}

Payload(s, r, a) ==
    [sender_id |-> s, recipient_id |-> r, amount |-> a, sender_logic_clock |-> 0,
     timestamp |-> 0, status |-> "PENDING", num_replies |-> 0]

InitRegistry ==
    /\ InitPeers
    /\ quota = [i \in Procs |-> Quota(0, 0)]
    /\ accounts = <<>>
    /\ clients = {}
    /\ transactions = <<>>
    /\ response = NoResponse
    /\ issued = {}

\* BankServer.register
register ==
    /\ next_client_id(accounts) <= MaxAccountId
    /\ IF _check_account_info(accounts, clients)
       THEN LET client_id == next_client_id(accounts)
            IN  /\ accounts' = Append(accounts, Account(client_id))
                /\ clients' = clients \cup {client_id}
                /\ response' = [op |-> "register", status |-> 200,
                                client_id |-> client_id, other_clients |-> clients]
                /\ issued' = issued \cup {client_id}
       ELSE /\ response' = [op |-> "register", status |-> 500]
            /\ UNCHANGED <<accounts, clients, issued>>
    /\ UNCHANGED <<peerVars, transactions>>

\* BankServer.balance
balance(client_id) ==
    /\ response' = [op |-> "balance",
                    res |-> balance_result(accounts, clients, client_id)]
    /\ UNCHANGED <<peerVars, accounts, clients, transactions, issued>>

\* BankServer.transfer
transfer(p) ==
    /\ Len(transactions) < MaxSrvTransfers
    /\ accounts' = transfer_accounts(accounts, clients, p)
    /\ transactions' = transfer_log(accounts, clients, transactions, p)
    /\ response' = [op |-> "transfer", res |-> transfer_result(accounts, clients, p)]
    /\ UNCHANGED <<peerVars, clients, issued>>

\* BankServer.shutdown_client
shutdown_client(client_id) ==
    /\ clients' = clients \ {client_id}
    /\ accounts' = shutdown_accounts(accounts, client_id)
    /\ response' = [op |-> "exit", status |-> 200]
    /\ UNCHANGED <<peerVars, transactions, issued>>

NextRegistry ==
    \/ register
    \/ \E id \in Ids : balance(id)
    \/ \E s \in Ids, r \in Ids, a \in SrvAmounts : transfer(Payload(s, r, a))
    \/ \E id \in Ids : shutdown_client(id)

SpecRegistry == InitRegistry /\ [][NextRegistry]_vars

(***************************************************************************)
(* blockchain.py: one BlockChain on its own, given any transactions        *)
(***************************************************************************)
MaxLedgerClock == 2

LedgerInputs ==
    {[Transaction(s, 3 - s, 4, c, 0, 0) EXCEPT !.status = st] :
        s \in 1..2, c \in 1..MaxLedgerClock, st \in {"SUCCESS", "ABORT"}}

\* BlockChain.add_transaction on the chain of peer 1
ledger_add(t) ==
    /\ Len(chain[1]) < MaxBlocks
    /\ chain' = [chain EXCEPT ![1] = add_transaction(@, t)]
    /\ UNCHANGED <<logic_clock, other_clients, sending_queue, message_queue,
                   ctl, tk, ev, chan, resp, quota, srvVars>>

NextLedger == \E t \in LedgerInputs : ledger_add(t)

SpecLedger == InitRegistry /\ [][NextLedger]_vars

(***************************************************************************)
(* Claims                                                                  *)
(***************************************************************************)
\* The commit step of process_message: from the commit-time balance read until
\* the transaction has left the queues
InCommit(i) == tk[i].pc \in {"commit", "wait", "b_inc", "remove"}

\* C1: no two distinct peers are inside the commit step for their own head
\* transfer at the same time.
C1_MutualExclusion ==
    \A i, j \in Peers : i # j => ~(InCommit(i) /\ InCommit(j))

\* C2: whenever a peer has passed the gate for its own transaction, every
\* transaction already stamped with a smaller (sender_logic_clock, sender_id)
\* has already been finalized.
C2_LamportOrder ==
    \A i \in Peers : tk[i].pc = "commit" =>
        \A j \in Peers : \A k \in DOMAIN sending_queue[j] :
            KeyLess(sending_queue[j][k], sending_queue[i][1])
                => sending_queue[j][k].status # "PENDING"

BlocksOf(j, i) == {k \in DOMAIN chain[j] : chain[j][k].transaction.sender_id = i}

AllFinalized ==
    /\ \A i \in Peers : sending_queue[i] = <<>> /\ message_queue[i] = <<>>
    /\ \A i, j \in Peers : Cardinality(BlocksOf(j, i)) = ctl[i].made
    /\ \A j \in Peers : \A k \in DOMAIN chain[j] :
          chain[j][k].transaction.status \in {"SUCCESS", "ABORT"}

\* Nothing is left to run: every command was typed, no thread is inside an
\* operation, no message is in flight and no peer's gate holds
Settled ==
    /\ \A i \in Peers : quota[i] = Quota(0, 0)
    /\ \A i \in Peers : ctl[i].pc = "idle" /\ tk[i].pc = "idle" /\ ev[i].pc = "idle"
    /\ \A i, j \in Peers : chan[i][j] = <<>>
    /\ \A i \in Peers : ~Gate(i)

\* C3: every accepted transfer is eventually finalized, leaves every queue and
\* is one block of every ledger: once every request and release was delivered
\* and answered and no thread has a step left, that has happened.
C3_Progress == Settled => AllFinalized

\* C5: adjacent blocks of every chain are strictly increasing in
\* (sender_logic_clock, sender_id).
C5_LedgerOrder ==
    \A i \in Peers : \A k \in 1..(Len(chain[i]) - 1) :
        KeyLess(chain[i][k].transaction, chain[i][k + 1].transaction)

\* C7: the logical clock of a peer never decreases.
C7_ClockMonotone ==
    [][\A i \in Peers : logic_clock'[i] >= logic_clock[i]]_vars

\* No transfer is in flight: every queue is empty, no request or release is
\* under way or being handled, and no thread is inside an operation
Quiescent ==
    /\ \A i \in Peers : sending_queue[i] = <<>> /\ message_queue[i] = <<>>
    /\ \A i, j \in Peers : chan[i][j] = <<>>
    /\ \A i \in Peers : ctl[i].pc = "idle" /\ tk[i].pc = "idle" /\ ev[i].pc = "idle"

\* What a ledger shows of block k: the transaction with its status and
\* num_replies, the previous_hash and the hash
Shown(c) ==
    [k \in DOMAIN c |-> <<to_dict(c[k].transaction), c[k].previous_hash, Hash(c[k])>>]

\* C4: in every quiescent state all ledgers hold the same transactions with the
\* same status and num_replies in each position, and the same previous_hash
\* and hash.
C4_LedgerAgreement ==
    Quiescent => \A i, j \in Peers : Shown(chain[i]) = Shown(chain[j])

\* every peer committed a transfer, one of them aborted, and all is quiet
C4_Witness ==
    /\ Quiescent
    /\ \A i \in Peers : Len(chain[i]) = NumPeers
    /\ \E k \in DOMAIN chain[1] : chain[1][k].transaction.status = "ABORT"
    /\ \E k \in DOMAIN chain[1] : chain[1][k].transaction.status = "SUCCESS"

Linked(c) ==
    c # <<>> =>
        /\ c[1].previous_hash = EmptyDigest
        /\ \A k \in 2..Len(c) : c[k].previous_hash = Hash(c[k - 1])
        /\ \A k \in 1..(Len(c) - 1) : c[k].next_block = c[k + 1].bid
        /\ c[Len(c)].next_block = 0

\* C6: after every add_transaction the head's previous_hash is the empty-string
\* digest, every other block's previous_hash is the hash of the block before
\* it, every block's next_block is its successor and the tail's is absent.
C6_HashLinkage == \A i \in Peers : Linked(chain[i])

\* three blocks, the last one added now stands before an older one
C6_Witness ==
    /\ Len(chain[1]) >= 3
    /\ \E k \in 1..(Len(chain[1]) - 1) :
          /\ chain[1][k].bid = Len(chain[1])
          /\ KeyLess(chain[1][k].transaction, chain[1][k + 1].transaction)

\* C8: when the transfer-request handler writes the clock, and no other thread
\* changed the clock since the handler read it, the clock becomes max(c, t) + 1,
\* the transaction is in message_queue and the sender has its success answer.
C8_ReceiveRule ==
    [][\A j \in Peers :
          (receive_transfer_request_clock(j) /\ logic_clock[j] = ev[j].creg)
          => /\ logic_clock'[j] =
                   (IF logic_clock[j] >= ev[j].tx.sender_logic_clock
                    THEN logic_clock[j] ELSE ev[j].tx.sender_logic_clock) + 1
             /\ Contains(message_queue'[j], ev[j].tx)
             /\ j \in resp'[ev[j].src][ev[j].th]]_vars

\* a request was answered by a peer whose clock was behind the request's stamp:
\* its clock is the stamp plus one and the request is in its queue
C8_Witness ==
    \E j \in Peers : \E k \in DOMAIN message_queue[j] :
        LET t == message_queue[j][k]
        IN  /\ t.sender_id # j
            /\ j \in resp[t.sender_id]["ctl"]
            /\ t.sender_logic_clock >= 2
            /\ logic_clock[j] = t.sender_logic_clock + 1

RECURSIVE Total(_)
Total(accs) == IF accs = <<>> THEN 0 ELSE accs[1].balance + Total(Tail(accs))

BalanceOf(accs, id) == accs[FindAccount(accs, id)].balance

Delta(p, id) ==
    (IF id = p.recipient_id THEN p.amount ELSE 0)
        - (IF id = p.sender_id THEN p.amount ELSE 0)

\* C9: a Registry transfer leaves the sum of the balances unchanged; on success
\* the sender's balance drops by amount, the recipient's rises by amount and no
\* other account changes; on fail no account changes.
C9_Conservation ==
    [][\A s \in Ids, r \in Ids, a \in SrvAmounts :
          transfer(Payload(s, r, a))
          => /\ Total(accounts') = Total(accounts)
             /\ AccountIds(accounts') = AccountIds(accounts)
             /\ IF Succeeded(response'.res)
                THEN \A id \in AccountIds(accounts) :
                        BalanceOf(accounts', id)
                            = BalanceOf(accounts, id) + Delta(Payload(s, r, a), id)
                ELSE accounts' = accounts]_vars

\* a transfer between two of three accounts succeeded
C9_Witness ==
    /\ response.op = "transfer"
    /\ Succeeded(response.res)
    /\ Len(accounts) >= 3
    /\ \E k, l \in DOMAIN accounts :
          /\ accounts[k].balance < InitialBalance
          /\ accounts[l].balance > InitialBalance

\* C10: in every reachable Registry state every account balance is >= 0.
C10_BalanceBounds == \A k \in DOMAIN accounts : accounts[k].balance >= 0

\* a transfer of more than the sender still had was answered with fail
C10_Witness ==
    /\ response.op = "transfer"
    /\ response.res.status = 200
    /\ response.res.result = "fail"
    /\ transactions # <<>>
    /\ \E k \in DOMAIN accounts :
          accounts[k].balance > 0 /\ accounts[k].balance < InitialBalance

\* C11: a Registry exit(client_id) removes only that client's entry of the
\* reachable-clients map; the accounts and their balances are unchanged.
C11_ExitKeepsAccount ==
    [][\A id \in Ids :
          shutdown_client(id)
          => /\ clients' = clients \ {id}
             /\ accounts' = accounts]_vars

\* C12: the first register returns id 1, and every register returns an id
\* greater than every id an earlier register returned.
C12_IdAllocation ==
    [][(register /\ response'.status = 200)
          => /\ (issued = {} => response'.client_id = 1)
             /\ \A x \in issued : response'.client_id > x]_vars

\* C20: when a peer with clock c handles a release for a transaction stamped
\* t, its clock afterwards is max(c, t) + 1.
C20_ReceiveRuleRelease ==
    [][\A j \in Procs :
          receive_transfer_finish_add(j)
          => logic_clock'[j] = Max(logic_clock[j], ev[j].tx.sender_logic_clock) + 1]_vars

\* C14: a transfer call whose recipient is not a known other peer, or is the
\* peer itself, or whose amount is negative, returns at once: the peer's clock,
\* sending_queue, message_queue and ledger are unchanged and no request goes out.
C14_RejectedTransfer ==
    [][\A i \in Peers, r \in Procs, a \in Amounts \cup BadAmounts :
          ( /\ transfer_begin(i, r, a) \/ transfer_reject(i, r, a)
            /\ (r \notin other_clients[i] \/ r = i \/ a < 0) )
          => /\ logic_clock'[i] = logic_clock[i]
             /\ sending_queue'[i] = sending_queue[i]
             /\ message_queue'[i] = message_queue[i]
             /\ chain'[i] = chain[i]
             /\ chan'[i] = chan[i]
             /\ ctl'[i].pc = "idle"]_vars

\* a peer whose transfer command was refused: nothing made, nothing queued
C14_Witness ==
    \E i \in Peers :
        /\ quota[i].transfers < MaxTransfers
        /\ ctl[i].pc = "idle" /\ ctl[i].made = 0
        /\ logic_clock[i] = 0
        /\ sending_queue[i] = <<>> /\ message_queue[i] = <<>>

HasBlock(c, t, st) ==
    \E k \in DOMAIN c : TxEq(c[k].transaction, t) /\ c[k].transaction.status = st

\* the aborted transactions of peer i whose tick is over: a block of its own
\* ledger that is no longer in its sending_queue
AbortedBy(i) ==
    {chain[i][k].transaction : k \in
        {l \in DOMAIN chain[i] :
            /\ chain[i][l].transaction.sender_id = i
            /\ chain[i][l].transaction.status = "ABORT"
            /\ \A m \in DOMAIN sending_queue[i] :
                  sending_queue[i][m].oid # chain[i][l].transaction.oid}}

\* C13: when the commit-time balance is less than the amount, the commit step
\* makes no Registry transfer, sets status ABORT, appends the block and sends
\* the release to every other peer; once the tick is over every ledger holds
\* the block with status ABORT, the Registry never saw the transfer and the
\* transaction is in no message_queue.
C13_InsufficientBalance ==
    /\ [][\A i \in Peers :
            (process_message_commit(i) /\ tk[i].cur_balance < sending_queue[i][1].amount)
            => /\ accounts' = accounts
               /\ transactions' = transactions
               /\ sending_queue'[i][1].status = "ABORT"
               /\ Len(chain'[i]) = Len(chain[i]) + 1
               /\ HasBlock(chain'[i], sending_queue[i][1], "ABORT")
               /\ \A j \in other_clients[i] :
                     LET m == chan'[i][j][Len(chan'[i][j])]
                     IN  /\ Len(chan'[i][j]) = Len(chan[i][j]) + 1
                         /\ m.type = "release"
                         /\ m.tx = to_dict(sending_queue'[i][1])]_vars
    /\ [](\A i \in Peers : \A t \in AbortedBy(i) :
            /\ \A j \in Peers : HasBlock(chain[j], t, "ABORT")
            /\ \A j \in Peers : ~Contains(message_queue[j], t)
            /\ \A k \in DOMAIN transactions : ~TxEq(transactions[k], t))

\* a transfer of more than the balance is over: ABORT in both ledgers, both
\* balances as they were
C13_Witness ==
    /\ AbortedBy(1) # {}
    /\ \A t \in AbortedBy(1) : t.amount > InitialBalance
    /\ \A j \in Peers : Len(chain[j]) = 1
    /\ \A k \in DOMAIN accounts : accounts[k].balance = InitialBalance
    /\ sending_queue[1] = <<>>

\* the release of transaction t is the last message peer i sent to every peer
\* of its other_clients
ReleaseSent(i, t) ==
    \A j \in other_clients[i] :
        /\ Len(chan'[i][j]) = Len(chan[i][j]) + 1
        /\ chan'[i][j][Len(chan'[i][j])].type = "release"
        /\ chan'[i][j][Len(chan'[i][j])].tx = to_dict(t)

\* C15: when the gate held, the balance read covers the amount and the Registry
\* transfer does not return success, the sender sets status ABORT, appends the
\* block, sends the release and goes on to remove the transaction from its
\* queues.
C15_RegistryFailure ==
    [][\A i \in Procs :
          ( /\ process_message_commit(i)
            /\ tk[i].cur_balance >= sending_queue[i][1].amount
            /\ ~Succeeded(transfer_result(accounts, clients, to_dict(sending_queue[i][1]))) )
          => /\ sending_queue'[i] # <<>>
             /\ sending_queue'[i][1].status = "ABORT"
             /\ HasBlock(chain'[i], sending_queue[i][1], "ABORT")
             /\ ReleaseSent(i, sending_queue'[i][1])
             /\ tk'[i].pc = "wait"]_vars

\* C16: when a request of a transfer got no answer, that transaction is, in
\* every later state, still PENDING in the sender's sending_queue and
\* message_queue, in no ledger, and the Registry never made the transfer.
C16_TimedOutRequest ==
    \A i \in Procs : ctl[i].pc = "dead" =>
        \E k \in DOMAIN sending_queue[i] :
            LET t == sending_queue[i][k]
            IN  /\ t.oid = ctl[i].made
                /\ t.status = "PENDING"
                /\ \E l \in DOMAIN message_queue[i] :
                      message_queue[i][l].oid = t.oid /\ message_queue[i][l].status = "PENDING"
                /\ \A j \in Procs : \A l \in DOMAIN chain[j] :
                      ~TxEq(chain[j][l].transaction, t)
                /\ \A l \in DOMAIN transactions : ~TxEq(transactions[l], t)

\* every command was typed, every running thread is at rest, no message is in
\* flight and no gate holds
Halted ==
    /\ \A i \in Procs : quota[i] = Quota(0, 0)
    /\ \A i \in Procs : /\ ctl[i].pc \in {"idle", "off"}
                        /\ tk[i].pc \in {"idle", "off"}
                        /\ ev[i].pc \in {"idle", "off"}
    /\ \A i, j \in Procs : chan[i][j] = <<>>
    /\ \A i \in Procs : ~Gate(i)

\* C17: a transfer that is in flight when a new peer registers is still
\* committed, without a reply from the new peer, and so are the transfers made
\* afterwards: once nothing is left to run, every transfer made is a block of
\* its sender's ledger and no sending_queue holds a transaction.
C17_LateJoiner ==
    Halted => \A i \in Procs :
                 /\ sending_queue[i] = <<>>
                 /\ Cardinality(BlocksOf(i, i)) = ctl[i].made

\* C18: a peer sends no request and no release to a peer X whose exit
\* notification it has processed, and a transfer whose requests went to the
\* remaining peers has, once they all replied, the num_replies the gate asks
\* for.
C18_TransferAfterExit ==
    [][\A i \in Procs :
          /\ \A x \in Procs \ (other_clients[i] \cup {i}) :
                (request_transaction_send(i) \/ process_message_commit(i))
                => chan'[i][x] = chan[i][x]
          /\ ( /\ request_transaction_count(i)
               /\ ctl'[i].pc = "idle"
               /\ ctl[i].targets = other_clients[i] )
             => \E k \in DOMAIN sending_queue'[i] :
                   /\ sending_queue'[i][k].oid = ctl[i].made
                   /\ sending_queue'[i][k].num_replies = Cardinality(other_clients[i])
                   /\ (k = 1 /\ TxEq(message_queue'[i][1], sending_queue'[i][1])
                          => Gate(i)')]_vars

\* peer 3 has left, peer 1 knew it before it sent its requests, and its
\* transfer is committed with the one reply of peer 2
C18_Witness ==
    /\ ev[3].pc = "off"
    /\ other_clients[1] = {2}
    /\ sending_queue[1] = <<>>
    /\ \E k \in DOMAIN chain[1] :
          /\ chain[1][k].transaction.sender_id = 1
          /\ chain[1][k].transaction.num_replies = 1
          /\ chain[1][k].transaction.status = "SUCCESS"
    /\ HasBlock(chain[2], chain[1][1].transaction, "SUCCESS")

\* C19: the ticker leaves its rest only in a state where the head of
\* sending_queue equals the head of message_queue and has as many replies as
\* other_clients has entries, and in every such state a tick does so; it then
\* reads the balance, finalizes the transaction (status, block, release) and
\* removes it; no other step changes a balance of the Registry.
C19_CommitGate ==
    /\ [][\A i \in Procs :
            /\ (tk[i].pc = "idle" /\ tk'[i].pc \notin {"idle", "off"})
               => /\ sending_queue[i] # <<>> /\ message_queue[i] # <<>>
                  /\ TxEq(sending_queue[i][1], message_queue[i][1])
                  /\ sending_queue[i][1].num_replies = Cardinality(other_clients[i])
                  /\ tk'[i].pc = "commit"
            /\ process_message_commit(i)
               => /\ sending_queue'[i][1].status \in {"SUCCESS", "ABORT"}
                  /\ HasBlock(chain'[i], sending_queue[i][1], sending_queue'[i][1].status)
                  /\ ReleaseSent(i, sending_queue'[i][1])
            /\ (tk[i].pc \in {"wait", "remove"} /\ tk'[i].pc = "idle")
               => /\ sending_queue'[i] = Tail(sending_queue[i])
                  /\ Len(message_queue'[i]) = Len(message_queue[i]) - 1]_vars
    /\ [][(\E a \in AccountIds(accounts) \cap AccountIds(accounts') :
               BalanceOf(accounts', a) # BalanceOf(accounts, a))
            => \E i \in Procs : tk[i].pc = "commit"]_vars
    /\ [](\A i \in Procs :
            ( /\ tk[i].pc = "idle"
              /\ sending_queue[i] # <<>> /\ message_queue[i] # <<>>
              /\ TxEq(sending_queue[i][1], message_queue[i][1])
              /\ sending_queue[i][1].num_replies = Cardinality(other_clients[i]) )
            => ENABLED process_message_gate(i))

\* C21: no step of process_message changes the peer's logical clock, whether
\* the gate is false, the commit ends in ABORT or it ends in SUCCESS.
C21_TickKeepsClock ==
    [][\A i \in Procs :
          ( \/ process_message_gate(i)
            \/ process_message_commit(i)
            \/ process_message_released(i)
            \/ process_message_balance_inc(i)
            \/ process_message_remove(i) )
          => logic_clock'[i] = logic_clock[i]]_vars

\* C22: a transaction enters sending_queue with status PENDING; its status
\* changes only on the commit step of its sender's tick, from PENDING to
\* SUCCESS or ABORT; every block of every ledger has status SUCCESS or ABORT,
\* and the same status as the sender's own copies of that transaction.
C22_StatusLifecycle ==
    /\ [][\A i \in Procs :
            /\ Len(sending_queue'[i]) > Len(sending_queue[i])
               => sending_queue'[i][Len(sending_queue'[i])].status = "PENDING"
            /\ \A k \in DOMAIN sending_queue[i] : \A l \in DOMAIN sending_queue'[i] :
                  ( /\ sending_queue'[i][l].oid = sending_queue[i][k].oid
                    /\ sending_queue'[i][l].status # sending_queue[i][k].status )
                  => /\ process_message_commit(i)
                     /\ k = 1
                     /\ sending_queue[i][k].status = "PENDING"
                     /\ sending_queue'[i][l].status \in {"SUCCESS", "ABORT"}
            /\ \A k \in DOMAIN chain[i] : \A l \in DOMAIN chain'[i] :
                  chain'[i][l].bid = chain[i][k].bid
                  => chain'[i][l].transaction.status = chain[i][k].transaction.status]_vars
    /\ [](\A j \in Procs : \A l \in DOMAIN chain[j] :
            LET t == chain[j][l].transaction
            IN  /\ t.status \in {"SUCCESS", "ABORT"}
                /\ \A m \in DOMAIN chain[t.sender_id] :
                      TxEq(chain[t.sender_id][m].transaction, t)
                      => chain[t.sender_id][m].transaction.status = t.status
                /\ \A m \in DOMAIN sending_queue[t.sender_id] :
                      TxEq(sending_queue[t.sender_id][m], t)
                      => sending_queue[t.sender_id][m].status = t.status)

\* both ledgers hold a block with status SUCCESS and a block with status ABORT
C22_Witness ==
    \A j \in Peers :
        /\ \E l \in DOMAIN chain[j] : chain[j][l].transaction.status = "SUCCESS"
        /\ \E l \in DOMAIN chain[j] : chain[j][l].transaction.status = "ABORT"

\* C23: in every state, every peer's message_queue is in ascending order of
\* (sender_logic_clock, sender_id).
C23_MessageQueueOrder ==
    \A i \in Procs : \A k \in 1..(Len(message_queue[i]) - 1) :
        ~KeyLess(message_queue[i][k + 1], message_queue[i][k])

\* C24: every add_transaction on a peer's ledger puts the new block at the
\* tail: the blocks before the append are, in the same order and with the same
\* transaction, previous_hash and hash, the first blocks after it.
C24_AppendOnly ==
    [][\A i \in Procs :
          Len(chain'[i]) = Len(chain[i]) + 1
          => \A k \in DOMAIN chain[i] :
                /\ chain'[i][k].bid = chain[i][k].bid
                /\ chain'[i][k].transaction = chain[i][k].transaction
                /\ chain'[i][k].previous_hash = chain[i][k].previous_hash
                /\ Hash(chain'[i][k]) = Hash(chain[i][k])]_vars

\* what the transfers of a Registry log add to the balance of account id
RECURSIVE Applied(_, _)
Applied(log, id) ==
    IF log = <<>> THEN 0 ELSE Delta(log[1], id) + Applied(Tail(log), id)

C26_ReplyCountBound ==
    \A i \in Procs : \A k \in DOMAIN sending_queue[i] :
        sending_queue[i][k].num_replies <= Cardinality(other_clients[i])

\* the sender of t has recorded it: its ledger holds the block of t with the
\* final status st, and the Registry has made the transfer if st is SUCCESS
Recorded(t, st) ==
    /\ st \in {"SUCCESS", "ABORT"}
    /\ HasBlock(chain[t.sender_id], t, st)
    /\ st = "SUCCESS" => \E l \in DOMAIN transactions : TxEq(transactions[l], t)
    /\ st = "ABORT" => \A l \in DOMAIN transactions : ~TxEq(transactions[l], t)

\* C27: whenever a peer other than the sender holds a block of a transaction,
\* or has taken it out of its message_queue on a release, the sender's own
\* ledger already holds it with that final status and the Registry transfer,
\* if there is one, is done.
C27_SenderRecordsFirst ==
    \A j \in Procs :
        /\ \A l \in DOMAIN chain[j] :
              chain[j][l].transaction.sender_id # j
              => Recorded(chain[j][l].transaction, chain[j][l].transaction.status)
        /\ ev[j].pc = "fin_add" => Recorded(ev[j].tx, ev[j].tx.status)

\* peer 2 holds the block of a transfer of peer 1 whose tick still waits for
\* the answer to the release
C27_Witness ==
    /\ tk[1].pc = "wait"
    /\ \E l \in DOMAIN chain[2] :
          /\ chain[2][l].transaction.sender_id = 1
          /\ chain[2][l].transaction.status = "SUCCESS"

\* C28: in every state of the Registry the check of _check_account_info holds
\* (as many accounts as clients, account ids pairwise distinct), the accounts
\* are those of the clients, and no register call was refused by the check.
C28_RegistrySelfCheck ==
    /\ _check_account_info(accounts, clients)
    /\ AccountIds(accounts) = clients
    /\ (response # NoResponse /\ response.op = "register") => response.status = 200

\* the last call was an exit for an id the Registry never issued
C28_Witness ==
    /\ response # NoResponse
    /\ response.op = "exit"
    /\ issued = {}
    /\ accounts = <<>>

====
